---- MODULE Spec2Model ----
(***************************************************************************)
(* Server actions of src/lib/actions/file.actions.ts: uploadFile,          *)
(* getFiles, renameFile, updateFileUsers, deleteFile, getTotalSpaceUsed    *)
(* and the query builder createQueries, over an object store (blobs) and   *)
(* a document database (docs).                                             *)
(*                                                                         *)
(* Strings the code takes apart (sort, searchText, a file's name and       *)
(* extension, attribute names) are sequences of one-character strings;     *)
(* strings the code only passes around (ids, e-mails, types) are atoms.    *)
(* An optional value (limit?: number, sort?: string) is <<>> when it is    *)
(* undefined and <<v>> when it is v.                                       *)
(***************************************************************************)
EXTENDS Integers, Sequences, FiniteSets, TLC

VARIABLES
    blobs,      \* ids of the blobs the object store holds
    docs,       \* document id -> FileRecord, the files collection
    nextId,     \* ID.unique(): the next unused id number
    started,    \* server actions started so far
    clock,      \* the backend's clock, stamped into $createdAt/$updatedAt
    calls,      \* call slot -> the server action running in it
    qIn,        \* createQueries alone: its arguments
    qOut,       \* createQueries alone: <<>> or <<the list it returned>>
    aggIn,      \* the aggregation alone: files.documents
    aggOut      \* the aggregation alone: <<>> or <<totalSpace>>

vars == <<blobs, docs, nextId, clock, started, calls, qIn, qOut, aggIn, aggOut>>

----------------------------------------------------------------------------
(* Bounds *)

MaxCalls == 3       \* server actions started in one behaviour
MaxSortLen == 5     \* characters of a sort string given to createQueries
MaxFiles == 3       \* records in a list given to the aggregation

----------------------------------------------------------------------------
(* Strings *)

Str_owner == <<"o", "w", "n", "e", "r">>
Str_users == <<"u", "s", "e", "r", "s">>
Str_type == <<"t", "y", "p", "e">>
Str_name == <<"n", "a", "m", "e">>
Str_size == <<"s", "i", "z", "e">>
Str_createdAt == <<"$", "c", "r", "e", "a", "t", "e", "d", "A", "t">>
Str_updatedAt == <<"$", "u", "p", "d", "a", "t", "e", "d", "A", "t">>
Str_asc == <<"a", "s", "c">>
Str_desc == <<"d", "e", "s", "c">>
Str_dash == "-"
Str_dot == "."

\* The default of getFiles' sort parameter, "$createdAt-desc".
DefaultSort == Str_createdAt \o <<Str_dash>> \o Str_desc

\* JavaScript's s.split(sep) for a one-character separator: the pieces
\* between every occurrence of sep, so Split("", sep) is <<"">>.
RECURSIVE Split(_, _)
Split(s, sep) ==
    IF \A i \in 1..Len(s) : s[i] # sep
    THEN <<s>>
    ELSE LET i == CHOOSE k \in 1..Len(s) :
                     /\ s[k] = sep
                     /\ \A j \in 1..(k - 1) : s[j] # sep
         IN  <<SubSeq(s, 1, i - 1)>> \o Split(SubSeq(s, i + 1, Len(s)), sep)

\* String.prototype.includes, as the backend's "contains" on a string.
Includes(s, t) ==
    \E i \in 1..(Len(s) - Len(t) + 1) : SubSeq(s, i, i + Len(t) - 1) = t

\* JavaScript truthiness of an optional number: undefined and 0 are falsy.
TruthyNumber(opt) == opt # <<>> /\ opt[1] # 0

----------------------------------------------------------------------------
(* Query: the predicates of node-appwrite the module builds *)

QueryEqual(attribute, values) ==
    [method |-> "equal", attribute |-> attribute, values |-> values]

QueryContains(attribute, values) ==
    [method |-> "contains", attribute |-> attribute, values |-> values]

QueryOr(queries) ==
    [method |-> "or", attribute |-> <<>>, values |-> queries]

QueryLimit(n) ==
    [method |-> "limit", attribute |-> <<>>, values |-> <<n>>]

QueryOrderAsc(attribute) ==
    [method |-> "orderAsc", attribute |-> attribute, values |-> <<>>]

QueryOrderDesc(attribute) ==
    [method |-> "orderDesc", attribute |-> attribute, values |-> <<>>]

\* The sort predicate of createQueries, lines 87-88.
SortQuery(sort) ==
    LET parts == Split(sort, Str_dash)
        sortBy == parts[1]
        orderBy == IF Len(parts) >= 2 THEN <<parts[2]>> ELSE <<>>
    IN  IF orderBy = <<Str_asc>> THEN QueryOrderAsc(sortBy)
                                 ELSE QueryOrderDesc(sortBy)

\* createQueries with the limit pushed only when it is greater than zero.
createQueriesPositiveLimit(currentUser, types, searchText, sort, limit) ==
    <<QueryOr(<<QueryEqual(Str_owner, <<currentUser.id>>),
                QueryContains(Str_users, <<currentUser.email>>)>>)>>
    \o (IF Len(types) > 0 THEN <<QueryEqual(Str_type, types)>> ELSE <<>>)
    \o (IF searchText # <<>> THEN <<QueryContains(Str_name, <<searchText>>)>> ELSE <<>>)
    \o (IF limit # <<>> /\ limit[1] > 0 THEN <<QueryLimit(limit[1])>> ELSE <<>>)
    \o (IF sort # <<>> THEN <<SortQuery(sort)>> ELSE <<>>)

\* createQueries without the owner-or-shared predicate.
createQueriesNoScope(currentUser, types, searchText, sort, limit) ==
    (IF Len(types) > 0 THEN <<QueryEqual(Str_type, types)>> ELSE <<>>)
    \o (IF searchText # <<>> THEN <<QueryContains(Str_name, <<searchText>>)>> ELSE <<>>)
    \o (IF TruthyNumber(limit) THEN <<QueryLimit(limit[1])>> ELSE <<>>)
    \o (IF sort # <<>> THEN <<SortQuery(sort)>> ELSE <<>>)

createQueries(currentUser, types, searchText, sort, limit) ==
    <<QueryOr(<<QueryEqual(Str_owner, <<currentUser.id>>),
                QueryContains(Str_users, <<currentUser.email>>)>>)>>
    \o (IF Len(types) > 0 THEN <<QueryEqual(Str_type, types)>> ELSE <<>>)
    \o (IF searchText # <<>> THEN <<QueryContains(Str_name, <<searchText>>)>> ELSE <<>>)
    \o (IF TruthyNumber(limit) THEN <<QueryLimit(limit[1])>> ELSE <<>>)
    \o (IF sort # <<>> THEN <<SortQuery(sort)>> ELSE <<>>)

\* getFiles' parameter default, sort = "$createdAt-desc", line 105.
SortOrDefault(sort) == IF sort = <<>> THEN DefaultSort ELSE sort[1]

----------------------------------------------------------------------------
(* Users the session provider can resolve, and the call slots *)

Users == {[id |-> "u1", email |-> "u1@mail"], [id |-> "u2", email |-> "u2@mail"]}

Slots == {1, 2}

\* A slot no server action runs in.
Idle ==
    [op |-> "idle", pc |-> "idle", args |-> <<>>, user |-> <<>>, bucketFile |-> <<>>,
     log |-> <<>>, revalidated |-> FALSE, result |-> <<>>, error |-> ""]

\* The stores before any action ran.
StoresInit ==
    /\ blobs = {}
    /\ docs = <<>>
    /\ nextId = 1
    /\ started = 0
    /\ clock = 1
    /\ calls = [s \in Slots |-> Idle]

----------------------------------------------------------------------------
(* Timestamps: the backend writes ISO 8601 strings, the code parses them *)

\* The $createdAt/$updatedAt string the backend writes at clock value n.
IsoOf(n) == "2024-01-0" \o ToString(n) \o "T00:00:00.000+00:00"

\* new Date(s) for a timestamp the backend wrote, as its clock value.
DateParse(s) == CHOOSE n \in 1..9 : IsoOf(n) = s

----------------------------------------------------------------------------
(* getTotalSpaceUsed: the aggregation of lines 249-268 *)

FileTypes == {"document", "image", "video", "audio", "other"}

\* A number wider than 32 bits, as hi * 65536 + lo.
Wide(n) == [hi |-> n \div 65536, lo |-> n % 65536]

WideTimes(w, k) ==
    [hi |-> w.hi * k + (w.lo * k) \div 65536, lo |-> (w.lo * k) % 65536]

TotalSpaceInit ==
    [image |-> [size |-> 0, latestDate |-> ""],
     document |-> [size |-> 0, latestDate |-> ""],
     video |-> [size |-> 0, latestDate |-> ""],
     audio |-> [size |-> 0, latestDate |-> ""],
     other |-> [size |-> 0, latestDate |-> ""],
     used |-> 0,
     all |-> WideTimes(WideTimes(WideTimes(Wide(2), 1024), 1024), 1024)]

\* The forEach callback with the date test dropped: the last record wins.
AddFileLastWins(totalSpace, file) ==
    LET fileType == file.type
        summed == [totalSpace EXCEPT ![fileType].size = @ + file.size,
                                     !.used = @ + file.size]
    IN  [summed EXCEPT ![fileType].latestDate = file.updatedAt]

\* The forEach callback, lines 259-268.
AddFile(totalSpace, file) ==
    LET fileType == file.type
        summed == [totalSpace EXCEPT ![fileType].size = @ + file.size,
                                     !.used = @ + file.size]
    IN  IF \/ summed[fileType].latestDate = ""
           \/ DateParse(file.updatedAt) > DateParse(summed[fileType].latestDate)
        THEN [summed EXCEPT ![fileType].latestDate = file.updatedAt]
        ELSE summed

\* files.documents.forEach(...) from totalSpace, in list order.
RECURSIVE ForEachFile(_, _)
ForEachFile(totalSpace, files) ==
    IF files = <<>> THEN totalSpace
    ELSE ForEachFile(AddFile(totalSpace, Head(files)), Tail(files))

TotalSpaceOf(files) == ForEachFile(TotalSpaceInit, files)

----------------------------------------------------------------------------
(* The document database and the object store *)

Range(f) == {f[x] : x \in DOMAIN f}

Without(f, x) == [y \in DOMAIN f \ {x} |-> f[y]]

\* The files collection's attribute of that name.
Attr(doc, a) ==
    CASE a = Str_owner -> doc.owner
      [] a = Str_users -> doc.users
      [] a = Str_type -> doc.type
      [] a = Str_name -> doc.name
      [] a = Str_size -> doc.size
      [] a = Str_createdAt -> DateParse(doc.createdAt)
      [] a = Str_updatedAt -> DateParse(doc.updatedAt)

IsFilter(q) == q.method \in {"equal", "contains", "or"}

\* Whether a document satisfies a filter predicate: "contains" is
\* membership on the array attribute users and substring on a string.
MatchesLeaf(doc, q) ==
    CASE q.method = "equal" -> Attr(doc, q.attribute) \in Range(q.values)
      [] q.method = "contains" ->
            IF q.attribute = Str_users
            THEN Range(q.values) \cap Range(doc.users) # {}
            ELSE \E v \in Range(q.values) : Includes(Attr(doc, q.attribute), v)

Matches(doc, q) ==
    IF q.method = "or" THEN \E i \in 1..Len(q.values) : MatchesLeaf(doc, q.values[i])
    ELSE MatchesLeaf(doc, q)

OrderableAttrs == {Str_size, Str_createdAt, Str_updatedAt}

\* Whether the backend rejects the query list: an order on an attribute it
\* cannot order by here, or a negative limit.
Rejects(queries) ==
    \E i \in 1..Len(queries) :
        \/ queries[i].method \in {"orderAsc", "orderDesc"}
              /\ queries[i].attribute \notin OrderableAttrs
        \/ queries[i].method = "limit" /\ queries[i].values[1] < 0

\* databases.listDocuments(queries) on the collection as it is now: the
\* documents matching every filter, in the order asked for (by id when
\* none is, and among equals), cut to the limit when one is given.
ListDocuments(queries) ==
    LET matched == {d \in DOMAIN docs :
            \A i \in 1..Len(queries) :
                IsFilter(queries[i]) => Matches(docs[d], queries[i])}
        orders == {i \in 1..Len(queries) :
                      queries[i].method \in {"orderAsc", "orderDesc"}}
        limits == {i \in 1..Len(queries) : queries[i].method = "limit"}
        Before(a, b) ==
            IF orders = {} THEN a < b
            ELSE LET o == queries[CHOOSE i \in orders : \A j \in orders : i <= j]
                     ka == Attr(docs[a], o.attribute)
                     kb == Attr(docs[b], o.attribute)
                 IN  IF ka = kb THEN a < b
                     ELSE IF o.method = "orderAsc" THEN ka < kb ELSE ka > kb
        n == Cardinality(matched)
        sorted == CHOOSE r \in [1..n -> matched] :
                      \A i, j \in 1..n : i < j => Before(r[i], r[j])
        cut == IF limits = {} THEN n
               ELSE LET l == queries[CHOOSE i \in limits : \A j \in limits : i <= j]
                    IN  IF l.values[1] < n THEN l.values[1] ELSE n
    IN  [i \in 1..cut |-> docs[sorted[i]]]

----------------------------------------------------------------------------
(* Helpers of lib/utils *)

Str_pdf == <<"p", "d", "f">>
Str_png == <<"p", "n", "g">>
Str_mp4 == <<"m", "p", "4">>
Str_mp3 == <<"m", "p", "3">>

\* Classification by extension into the five types.
getFileType(fileName) ==
    LET parts == Split(fileName, Str_dot)
        extension == IF Len(parts) > 1 THEN parts[Len(parts)] ELSE <<>>
    IN  [type |-> CASE extension = Str_pdf -> "document"
                    [] extension = Str_png -> "image"
                    [] extension = Str_mp4 -> "video"
                    [] extension = Str_mp3 -> "audio"
                    [] OTHER -> "other",
         extension |-> extension]

\* The url of a blob, a function of its id alone.
constructFileUrl(bucketFileId) == <<"view", bucketFileId>>

----------------------------------------------------------------------------
(* What the callers pass *)

UploadArgs ==
    {[file |-> [name |-> <<"a", Str_dot>> \o Str_pdf, size |-> 1],
      ownerId |-> "u1", accountId |-> "a1"],
     [file |-> [name |-> <<"b", Str_dot>> \o Str_png, size |-> 2],
      ownerId |-> "u2", accountId |-> "a2"]}

RenameNames == {[name |-> <<"r">>, extension |-> Str_pdf]}
EmailLists == {<<>>, <<"u2@mail">>, <<"u1@mail", "u2@mail">>}
GetFilesArgs ==
    {[types |-> <<>>, searchText |-> <<>>, sort |-> <<>>, limit |-> <<>>],
     [types |-> <<>>, searchText |-> <<>>, sort |-> <<>>, limit |-> <<0>>],
     [types |-> <<"image">>, searchText |-> <<>>, sort |-> <<>>, limit |-> <<>>],
     [types |-> <<"document", "image">>, searchText |-> <<>>,
      sort |-> <<(Str_size \o <<Str_dash>> \o Str_desc)>>, limit |-> <<1>>],
     [types |-> <<>>, searchText |-> <<"r">>,
      sort |-> <<(Str_size \o <<Str_dash>> \o Str_asc)>>, limit |-> <<1>>]}

----------------------------------------------------------------------------
(* A call: its log of backend invocations and how it ends *)

Invoked(call, api, arg, ok) ==
    [call EXCEPT !.log = Append(@, [api |-> api, arg |-> arg, ok |-> ok])]

\* handleError: the error goes to the caller.
Throws(call, error) == [call EXCEPT !.pc = "thrown", !.error = error]

\* revalidatePath(path), then the return of the value.
Returns(call, value) ==
    [call EXCEPT !.pc = "returned", !.revalidated = TRUE, !.result = <<value>>]

\* A return without revalidatePath (getFiles, getTotalSpaceUsed).
ReturnsOnly(call, value) == [call EXCEPT !.pc = "returned", !.result = <<value>>]

Finished(s) == calls[s].pc \in {"returned", "thrown"}

\* No call has ended without its caller having taken the outcome.
Settled == \A s \in Slots : ~Finished(s)

FirstAwait(op) ==
    CASE op = "uploadFile" -> "createFile"
      [] op = "getFiles" -> "getCurrentUser"
      [] op = "renameFile" -> "updateDocument"
      [] op = "updateFileUsers" -> "updateDocument"
      [] op = "deleteFile" -> "deleteDocument"
      [] op = "getTotalSpaceUsed" -> "getCurrentUser"

\* A caller invokes the server action op in the first idle slot. The call
\* runs to its first backend call: createAdminClient / createSessionClient
\* gives the clients, or throws.
Begin(s, op, args) ==
    /\ Settled
    /\ calls[s].pc = "idle"
    /\ \A t \in Slots : calls[t].pc = "idle" => calls[s].pc = "idle" /\ s <= t
    /\ started < MaxCalls
    /\ started' = started + 1
    /\ \/ calls' = [calls EXCEPT ![s] =
             [Idle EXCEPT !.op = op, !.pc = FirstAwait(op), !.args = args]]
       \/ calls' = [calls EXCEPT ![s] =
             Throws([Idle EXCEPT !.op = op, !.args = args], "createClient")]

Alone == UNCHANGED <<qIn, qOut, aggIn, aggOut>>

\* The caller takes the value returned or the error thrown.
Settle(s) ==
    /\ Finished(s)
    /\ calls' = [calls EXCEPT ![s] = Idle]
    /\ UNCHANGED <<blobs, docs, nextId, clock, started>>
    /\ Alone

\* A call suspended at the backend call pc is resumed.
At(s, op, pc) == Settled /\ calls[s].op = op /\ calls[s].pc = pc

----------------------------------------------------------------------------
(* uploadFile *)

uploadFile(s) ==
    /\ \E args \in UploadArgs : Begin(s, "uploadFile", args)
    /\ UNCHANGED <<blobs, docs, nextId, clock>>
    /\ Alone

\* The document of lines 38-48, for the blob the store returned.
fileDocument(args, bucketFileId) ==
    [type |-> getFileType(args.file.name).type,
     name |-> args.file.name,
     url |-> constructFileUrl(bucketFileId),
     extension |-> getFileType(args.file.name).extension,
     size |-> args.file.size,
     owner |-> args.ownerId,
     accountId |-> args.accountId,
     users |-> <<>>,
     bucketFileId |-> bucketFileId]

\* The document as the database stores it: $id, $createdAt, $updatedAt added.
Stored(id, data, now) ==
    [id |-> id, createdAt |-> IsoOf(now), updatedAt |-> IsoOf(now),
     type |-> data.type, name |-> data.name, url |-> data.url,
     extension |-> data.extension, size |-> data.size, owner |-> data.owner,
     accountId |-> data.accountId, users |-> data.users,
     bucketFileId |-> data.bucketFileId]

\* await storage.createFile(bucketId, ID.unique(), inputFile), line 32.
uploadFileCreateFile(s) ==
    /\ At(s, "uploadFile", "createFile")
    /\ \/ /\ blobs' = blobs \cup {nextId}
          /\ nextId' = nextId + 1
          /\ calls' = [calls EXCEPT ![s] =
                [Invoked(@, "createFile", nextId, TRUE)
                    EXCEPT !.pc = "createDocument", !.bucketFile = <<nextId>>]]
       \/ /\ calls' = [calls EXCEPT ![s] =
                Throws(Invoked(@, "createFile", 0, FALSE), "createFile")]
          /\ UNCHANGED <<blobs, nextId>>
    /\ UNCHANGED <<docs, clock, started>>
    /\ Alone

\* The .catch handler skipped: the error goes straight to the caller.
createDocumentCatchNoCleanup(call) == Throws(call, "createDocument")

\* createDocument rejected: the .catch handler of lines 56-59 runs and
\* awaits storage.deleteFile.
createDocumentCatch(call) == [call EXCEPT !.pc = "compensate"]

\* await databases.createDocument(..., ID.unique(), fileDocument), line 50,
\* and on success revalidatePath and the return, lines 61-63.
uploadFileCreateDocument(s) ==
    /\ At(s, "uploadFile", "createDocument")
    /\ \/ LET doc == Stored(nextId,
                         fileDocument(calls[s].args, calls[s].bucketFile[1]), clock)
          IN  /\ docs' = (nextId :> doc) @@ docs
              /\ nextId' = nextId + 1
              /\ clock' = clock + 1
              /\ calls' = [calls EXCEPT ![s] =
                    Returns(Invoked(@, "createDocument", nextId, TRUE), doc)]
       \/ /\ calls' = [calls EXCEPT ![s] =
                createDocumentCatch(Invoked(@, "createDocument", 0, FALSE))]
          /\ UNCHANGED <<docs, nextId, clock>>
    /\ UNCHANGED <<blobs, started>>
    /\ Alone

\* await storage.deleteFile(bucketId, bucketFile.$id) in the .catch handler,
\* line 57, then handleError: the createDocument error is rethrown, or the
\* error of deleteFile when that throws.
uploadFileCompensate(s) ==
    /\ At(s, "uploadFile", "compensate")
    /\ LET b == calls[s].bucketFile[1] IN
       \/ /\ b \in blobs
          /\ blobs' = blobs \ {b}
          /\ calls' = [calls EXCEPT ![s] =
                Throws(Invoked(@, "deleteFile", b, TRUE), "createDocument")]
       \/ /\ calls' = [calls EXCEPT ![s] =
                Throws(Invoked(@, "deleteFile", b, FALSE), "deleteFile")]
          /\ UNCHANGED blobs
    /\ UNCHANGED <<docs, nextId, clock, started>>
    /\ Alone

----------------------------------------------------------------------------
(* deleteFile *)

deleteFile(s) ==
    /\ \E fileId \in DOMAIN docs, bucketFileId \in blobs :
          Begin(s, "deleteFile", [fileId |-> fileId, bucketFileId |-> bucketFileId])
    /\ UNCHANGED <<blobs, docs, nextId, clock>>
    /\ Alone

\* deleteDocument rejected, with the blob deleted all the same.
deleteDocumentThrowsOn(call) == [call EXCEPT !.pc = "deleteFile"]

\* deleteDocument rejected: the catch of lines 229-231.
deleteDocumentThrows(call) == Throws(call, "deleteDocument")

\* deleteDocument resolved with deletedFile (TRUE for a truthy value):
\* line 220 awaits storage.deleteFile only for a truthy one, and lines
\* 224-226 return success otherwise.
afterDeleteDocument(call, deletedFile) ==
    IF deletedFile THEN [call EXCEPT !.pc = "deleteFile"]
    ELSE Returns(call, [status |-> "success"])

\* await databases.deleteDocument(..., fileId), line 214.
deleteFileDeleteDocument(s) ==
    /\ At(s, "deleteFile", "deleteDocument")
    /\ LET fileId == calls[s].args.fileId IN
       \/ /\ fileId \in DOMAIN docs
          /\ docs' = Without(docs, fileId)
          /\ \E deletedFile \in BOOLEAN :
                calls' = [calls EXCEPT ![s] =
                    afterDeleteDocument(
                        Invoked(@, "deleteDocument", fileId, TRUE), deletedFile)]
       \/ /\ calls' = [calls EXCEPT ![s] =
                deleteDocumentThrows(Invoked(@, "deleteDocument", fileId, FALSE))]
          /\ UNCHANGED docs
    /\ UNCHANGED <<blobs, nextId, clock, started>>
    /\ Alone

\* await storage.deleteFile(bucketId, bucketFileId), line 221, then
\* revalidatePath and the success status, lines 224-226.
deleteFileDeleteFile(s) ==
    /\ At(s, "deleteFile", "deleteFile")
    /\ LET b == calls[s].args.bucketFileId IN
       \/ /\ b \in blobs
          /\ blobs' = blobs \ {b}
          /\ calls' = [calls EXCEPT ![s] =
                Returns(Invoked(@, "deleteFile", b, TRUE), [status |-> "success"])]
       \/ /\ calls' = [calls EXCEPT ![s] =
                Throws(Invoked(@, "deleteFile", b, FALSE), "deleteFile")]
          /\ UNCHANGED blobs
    /\ UNCHANGED <<docs, nextId, clock, started>>
    /\ Alone

----------------------------------------------------------------------------
(* renameFile and updateFileUsers *)

\* databases.updateDocument(..., fileId, data): the attributes data names
\* are overwritten, the others kept, and $updatedAt is set by the backend.
UpdateDocument(doc, data, now) ==
    [f \in DOMAIN doc |->
        IF f \in DOMAIN data THEN data[f]
        ELSE IF f = "updatedAt" THEN IsoOf(now) ELSE doc[f]]

renameFile(s) ==
    /\ \E fileId \in DOMAIN docs, n \in RenameNames :
          Begin(s, "renameFile",
                [fileId |-> fileId, name |-> n.name, extension |-> n.extension])
    /\ UNCHANGED <<blobs, docs, nextId, clock>>
    /\ Alone

\* The data of a rename that leaves the extension out of the name.
renameDataBare(args) == [name |-> args.name]

\* The data of lines 145-153: name is `${name}.${extension}`.
renameData(args) == [name |-> args.name \o <<Str_dot>> \o args.extension]

\* await databases.updateDocument(..., fileId, {name: newName}), line 147,
\* then revalidatePath and the return, lines 156-158.
renameFileUpdateDocument(s) ==
    /\ At(s, "renameFile", "updateDocument")
    /\ LET fileId == calls[s].args.fileId IN
       \/ /\ fileId \in DOMAIN docs
          /\ LET updatedFile == UpdateDocument(docs[fileId], renameData(calls[s].args), clock)
             IN  /\ docs' = [docs EXCEPT ![fileId] = updatedFile]
                 /\ calls' = [calls EXCEPT ![s] =
                       Returns(Invoked(@, "updateDocument", fileId, TRUE), updatedFile)]
          /\ clock' = clock + 1
       \/ /\ calls' = [calls EXCEPT ![s] =
                Throws(Invoked(@, "updateDocument", fileId, FALSE), "updateDocument")]
          /\ UNCHANGED <<docs, clock>>
    /\ UNCHANGED <<blobs, nextId, started>>
    /\ Alone

updateFileUsers(s) ==
    /\ \E fileId \in DOMAIN docs, emails \in EmailLists :
          Begin(s, "updateFileUsers", [fileId |-> fileId, emails |-> emails])
    /\ UNCHANGED <<blobs, docs, nextId, clock>>
    /\ Alone

\* The data of lines 185-187: users is the list given.
updateFileUsersData(args) == [users |-> args.emails]

\* await databases.updateDocument(..., fileId, {users: emails}), line 181,
\* then revalidatePath and the return, lines 190-192.
updateFileUsersUpdateDocument(s) ==
    /\ At(s, "updateFileUsers", "updateDocument")
    /\ LET fileId == calls[s].args.fileId IN
       \/ /\ fileId \in DOMAIN docs
          /\ LET updatedFile ==
                    UpdateDocument(docs[fileId], updateFileUsersData(calls[s].args), clock)
             IN  /\ docs' = [docs EXCEPT ![fileId] = updatedFile]
                 /\ calls' = [calls EXCEPT ![s] =
                       Returns(Invoked(@, "updateDocument", fileId, TRUE), updatedFile)]
          /\ clock' = clock + 1
       \/ /\ calls' = [calls EXCEPT ![s] =
                Throws(Invoked(@, "updateDocument", fileId, FALSE), "updateDocument")]
          /\ UNCHANGED <<docs, clock>>
    /\ UNCHANGED <<blobs, nextId, started>>
    /\ Alone

----------------------------------------------------------------------------
(* getFiles and getTotalSpaceUsed *)

\* await getCurrentUser() and the test that follows it (lines 110-112 and
\* 240-241): a user, or none and the throw, or a throw of its own.
GetCurrentUser(s) ==
    \/ \E u \in Users :
          calls' = [calls EXCEPT ![s] =
              [Invoked(@, "getCurrentUser", <<u>>, TRUE)
                  EXCEPT !.pc = "listDocuments", !.user = <<u>>]]
    \/ calls' = [calls EXCEPT ![s] =
          Throws(Invoked(@, "getCurrentUser", <<>>, TRUE), "User not found")]
    \/ calls' = [calls EXCEPT ![s] =
          Throws(Invoked(@, "getCurrentUser", <<>>, FALSE), "getCurrentUser")]

\* await databases.listDocuments(..., queries) and what the call returns
\* of the list, or the throw.
ListStep(s, queries, value) ==
    \/ /\ ~Rejects(queries)
       /\ calls' = [calls EXCEPT ![s] =
             ReturnsOnly(Invoked(@, "listDocuments", queries, TRUE), value)]
    \/ calls' = [calls EXCEPT ![s] =
          Throws(Invoked(@, "listDocuments", queries, FALSE), "listDocuments")]

getFiles(s) ==
    /\ \E args \in GetFilesArgs : Begin(s, "getFiles", args)
    /\ UNCHANGED <<blobs, docs, nextId, clock>>
    /\ Alone

getFilesGetCurrentUser(s) ==
    /\ At(s, "getFiles", "getCurrentUser")
    /\ GetCurrentUser(s)
    /\ UNCHANGED <<blobs, docs, nextId, clock, started>>
    /\ Alone

\* The queries of line 114.
getFilesQueries(call) ==
    createQueries(call.user[1], call.args.types, call.args.searchText,
                  SortOrDefault(call.args.sort), call.args.limit)

\* Lines 114-122: the documents listed are returned as they come.
getFilesListDocuments(s) ==
    /\ At(s, "getFiles", "listDocuments")
    /\ ListStep(s, getFilesQueries(calls[s]),
                ListDocuments(getFilesQueries(calls[s])))
    /\ UNCHANGED <<blobs, docs, nextId, clock, started>>
    /\ Alone

getTotalSpaceUsed(s) ==
    /\ Begin(s, "getTotalSpaceUsed", <<>>)
    /\ UNCHANGED <<blobs, docs, nextId, clock>>
    /\ Alone

getTotalSpaceUsedGetCurrentUser(s) ==
    /\ At(s, "getTotalSpaceUsed", "getCurrentUser")
    /\ GetCurrentUser(s)
    /\ UNCHANGED <<blobs, docs, nextId, clock, started>>
    /\ Alone

\* The query list with the scope of getFiles: shared records counted too.
totalSpaceQueriesShared(currentUser) == createQueries(currentUser, <<>>, <<>>, <<>>, <<>>)

\* The query list of line 246.
totalSpaceQueries(currentUser) == <<QueryEqual(Str_owner, <<currentUser.id>>)>>

\* Lines 243-270: the owned documents are listed and aggregated.
getTotalSpaceUsedListDocuments(s) ==
    /\ At(s, "getTotalSpaceUsed", "listDocuments")
    /\ ListStep(s, totalSpaceQueries(calls[s].user[1]),
                TotalSpaceOf(ListDocuments(totalSpaceQueries(calls[s].user[1]))))
    /\ UNCHANGED <<blobs, docs, nextId, clock, started>>
    /\ Alone

----------------------------------------------------------------------------
(* The aggregation alone, on every bounded list of owned records *)

Sizes == {1, 2}
Stamps == {IsoOf(1), IsoOf(2)}
AggRecords == [type : FileTypes, size : Sizes, updatedAt : Stamps]
AggLists == UNION {[1..n -> AggRecords] : n \in 0..MaxFiles}

Aggregate ==
    /\ aggOut = <<>>
    /\ aggOut' = <<TotalSpaceOf(aggIn)>>
    /\ UNCHANGED <<blobs, docs, nextId, clock, started, calls, qIn, qOut, aggIn>>

----------------------------------------------------------------------------
(* createQueries alone, on every bounded argument list *)

SortChars == {"a", "s", "c", Str_dash}
SortStrings == UNION {[1..n -> SortChars] : n \in 0..MaxSortLen}
TypeLists == {<<>>, <<"image">>, <<"image", "video">>}
SearchTexts == {<<>>, <<"a">>}
Limits == {<<>>, <<-1>>, <<0>>, <<5>>}
SortOptions == {<<>>} \cup {<<s>> : s \in SortStrings}
QueryInputs ==
    [currentUser : Users, types : TypeLists, searchText : SearchTexts,
     sort : SortOptions, limit : Limits]

\* The queries getFiles builds at line 114 from its arguments.
BuildQueries ==
    /\ qOut = <<>>
    /\ qOut' = <<createQueries(qIn.currentUser, qIn.types, qIn.searchText,
                                SortOrDefault(qIn.sort), qIn.limit)>>
    /\ UNCHANGED <<blobs, docs, nextId, clock, started, calls, qIn, aggIn, aggOut>>

InitQ ==
    /\ StoresInit
    /\ qIn \in QueryInputs
    /\ qOut = <<>>
    /\ aggIn = <<>>
    /\ aggOut = <<>>

SpecQ == InitQ /\ [][BuildQueries]_vars

InitAgg ==
    /\ StoresInit
    /\ qIn = <<>>
    /\ qOut = <<>>
    /\ aggIn \in AggLists
    /\ aggOut = <<>>

Init ==
    /\ StoresInit
    /\ qIn = <<>>
    /\ qOut = <<>>
    /\ aggIn = <<>>
    /\ aggOut = <<>>

Next ==
    \E s \in Slots :
        \/ Settle(s)
        \/ uploadFile(s)
        \/ uploadFileCreateFile(s)
        \/ uploadFileCreateDocument(s)
        \/ uploadFileCompensate(s)
        \/ deleteFile(s)
        \/ deleteFileDeleteDocument(s)
        \/ deleteFileDeleteFile(s)
        \/ renameFile(s)
        \/ renameFileUpdateDocument(s)
        \/ updateFileUsers(s)
        \/ updateFileUsersUpdateDocument(s)
        \/ getFiles(s)
        \/ getFilesGetCurrentUser(s)
        \/ getFilesListDocuments(s)
        \/ getTotalSpaceUsed(s)
        \/ getTotalSpaceUsedGetCurrentUser(s)
        \/ getTotalSpaceUsedListDocuments(s)

Spec == Init /\ [][Next]_vars

SpecAgg == InitAgg /\ [][Aggregate]_vars

----------------------------------------------------------------------------
(* C10: createQueries against the reference builder *)

IsOrder(q) == q.method \in {"orderAsc", "orderDesc"}
IsTypeFilter(q) == q.method = "equal" /\ q.attribute = Str_type
IsNameFilter(q) == q.method = "contains" /\ q.attribute = Str_name
NumTypeFilters(qs) == Cardinality({i \in 1..Len(qs) : IsTypeFilter(qs[i])})
NumNameFilters(qs) == Cardinality({i \in 1..Len(qs) : IsNameFilter(qs[i])})
NumOrders(qs) == Cardinality({i \in 1..Len(qs) : IsOrder(qs[i])})
NumLimits(qs) == Cardinality({i \in 1..Len(qs) : qs[i].method = "limit"})
NumLists(log) == Cardinality({i \in 1..Len(log) : log[i].api = "listDocuments"})
DashCount(s) == Cardinality({i \in 1..Len(s) : s[i] = Str_dash})
IsLimit(q) == q.method = "limit"

\* Everything the reference builder fixes but the limit predicate.
ReferenceButLimit(in, qs) ==
    LET sort == SortOrDefault(in.sort)
        rest == SubSeq(qs, 2, Len(qs))
    IN  /\ qs[1] = QueryOr(<<QueryEqual(Str_owner, <<in.currentUser.id>>),
                             QueryContains(Str_users, <<in.currentUser.email>>)>>)
        /\ NumTypeFilters(rest) = (IF in.types # <<>> THEN 1 ELSE 0)
        /\ \A i \in 1..Len(rest) : IsTypeFilter(rest[i]) => rest[i].values = in.types
        /\ NumNameFilters(rest) = (IF in.searchText # <<>> THEN 1 ELSE 0)
        /\ \A i \in 1..Len(rest) :
               IsNameFilter(rest[i]) => rest[i].values = <<in.searchText>>
        /\ NumOrders(rest) = (IF sort # <<>> THEN 1 ELSE 0)
        /\ \A i \in 1..Len(rest) :
               IsOrder(rest[i]) /\ DashCount(sort) = 1 =>
                   LET d == CHOOSE k \in 1..Len(sort) : sort[k] = Str_dash
                       field == SubSeq(sort, 1, d - 1)
                       direction == SubSeq(sort, d + 1, Len(sort))
                   IN  rest[i] = IF direction = Str_asc THEN QueryOrderAsc(field)
                                                        ELSE QueryOrderDesc(field)
        /\ in.sort = <<>> => \E i \in 1..Len(rest) :
               IsOrder(rest[i]) /\ rest[i] = QueryOrderDesc(Str_createdAt)
        /\ \A i \in 1..Len(rest) :
               IsLimit(rest[i]) => rest[i].values = <<in.limit[1]>>
        /\ Len(rest) = NumTypeFilters(rest) + NumNameFilters(rest)
                        + NumOrders(rest) + NumLimits(rest)

\* C10 as stated: createQueries is the reference builder, whose limit
\* predicate is present iff limit is a positive number.
C10_AsStated ==
    qOut # <<>> =>
        /\ ReferenceButLimit(qIn, qOut[1])
        /\ NumLimits(qOut[1])
               = (IF qIn.limit # <<>> /\ qIn.limit[1] > 0 THEN 1 ELSE 0)

\* C10 amended: createQueries is the reference builder, whose limit
\* predicate (with value limit) is present iff limit is a number other
\* than zero: none for 0 or undefined, one for 5 and one for -1.
C10_QueriesAreReference ==
    qOut # <<>> =>
        /\ ReferenceButLimit(qIn, qOut[1])
        /\ NumLimits(qOut[1])
               = (IF qIn.limit # <<>> /\ qIn.limit[1] # 0 THEN 1 ELSE 0)

\* C10 witness: types, searchText and a negative limit given with the sort
\* "s-asc": four predicates follow the scope, the last ascending on "s".
C10_Witness ==
    /\ qOut # <<>>
    /\ qIn.types # <<>> /\ qIn.searchText # <<>> /\ qIn.limit = <<-1>>
    /\ qIn.sort = <<(<<"s", Str_dash>> \o Str_asc)>>
    /\ Len(qOut[1]) = 5
    /\ qOut[1][5] = QueryOrderAsc(<<"s">>)

----------------------------------------------------------------------------
(* C8: the aggregation against the reference fold *)

RECURSIVE SumSizes(_, _)
SumSizes(files, I) ==
    IF I = {} THEN 0
    ELSE LET i == CHOOSE k \in I : TRUE
         IN  files[i].size + SumSizes(files, I \ {i})

OfType(files, t) == {i \in 1..Len(files) : files[i].type = t}

\* The latest $updatedAt among the records of type t, "" when none.
RefLatest(files, t) ==
    IF OfType(files, t) = {} THEN ""
    ELSE IsoOf(CHOOSE n \in 1..9 :
             /\ \E i \in OfType(files, t) : files[i].updatedAt = IsoOf(n)
             /\ \A i \in OfType(files, t) : \A m \in 1..9 :
                    files[i].updatedAt = IsoOf(m) => m <= n)

Reorderings(n) == {f \in [1..n -> 1..n] : \A i, j \in 1..n : f[i] = f[j] => i = j}

\* C8: the totals equal the reference fold, bucket by bucket; used is the
\* sum of all sizes and of the five buckets; all is 32768 * 65536 =
\* 2147483648; the empty list gives the initial totals; and every
\* permutation of the list gives the same totals.
C8_TotalsAreReferenceFold ==
    aggOut # <<>> =>
        LET t == aggOut[1] IN
        /\ \A ty \in FileTypes :
               /\ t[ty].size = SumSizes(aggIn, OfType(aggIn, ty))
               /\ t[ty].latestDate = RefLatest(aggIn, ty)
        /\ t.used = SumSizes(aggIn, 1..Len(aggIn))
        /\ t.used = t.document.size + t.image.size + t.video.size
                     + t.audio.size + t.other.size
        /\ t.all = [hi |-> 32768, lo |-> 0]
        /\ aggIn = <<>> =>
               /\ t.used = 0
               /\ \A ty \in FileTypes : t[ty] = [size |-> 0, latestDate |-> ""]
        /\ \A f \in Reorderings(Len(aggIn)) :
               TotalSpaceOf([i \in 1..Len(aggIn) |-> aggIn[f[i]]]) = t

\* C8 witness: two image records, the later one first in the list, and a
\* record of another type; image.latestDate is the later timestamp.
C8_Witness ==
    /\ aggOut # <<>>
    /\ Len(aggIn) = 3
    /\ aggIn[1].type = "image" /\ aggIn[1].updatedAt = IsoOf(2)
    /\ aggIn[2].type = "image" /\ aggIn[2].updatedAt = IsoOf(1)
    /\ aggIn[3].type = "video"
    /\ aggOut[1].image.latestDate = IsoOf(2)
    /\ aggOut[1].image.size = aggIn[1].size + aggIn[2].size

----------------------------------------------------------------------------
(* Claims about the server actions. A call that has ended stays in its
   slot, with its log, until its caller takes the outcome, and no backend
   call is served meanwhile: in a state where Finished(s) holds the stores
   are as the call's last step left them. *)

HasEntry(call, api, ok) ==
    \E i \in 1..Len(call.log) : call.log[i].api = api /\ call.log[i].ok = ok

Referencing(b) == {d \in DOMAIN docs : docs[d].bucketFileId = b}

\* C1: when an uploadFile call has ended, the blob it created and a record
\* naming that blob both exist, or neither does.
C1_UploadAllOrNothing ==
    \A s \in Slots :
        calls[s].op = "uploadFile" /\ Finished(s) /\ calls[s].bucketFile # <<>> =>
            LET b == calls[s].bucketFile[1]
            IN  (b \in blobs) <=> (Referencing(b) # {})

\* C2: in uploadFile, once createFile has succeeded and createDocument has
\* thrown, the call never revalidates and never returns; when it has ended
\* it has thrown, its last backend call was deleteFile on the id createFile
\* returned, and no record names that blob.
C2_CompensationBeforeThrow ==
    \A s \in Slots :
        LET call == calls[s] IN
        call.op = "uploadFile" /\ HasEntry(call, "createFile", TRUE)
                               /\ HasEntry(call, "createDocument", FALSE) =>
            /\ call.pc \in {"compensate", "thrown"}
            /\ ~call.revalidated
            /\ call.result = <<>>
            /\ Referencing(call.log[1].arg) = {}
            /\ call.pc = "thrown" =>
                  /\ Len(call.log) = 3
                  /\ call.log[1].api = "createFile"
                  /\ call.log[2].api = "createDocument"
                  /\ call.log[3].api = "deleteFile"
                  /\ call.log[3].arg = call.log[1].arg

\* C2 witness: an upload has thrown after createFile succeeded,
\* createDocument threw and deleteFile removed the blob.
C2_Witness ==
    \E s \in Slots :
        /\ calls[s].op = "uploadFile" /\ calls[s].pc = "thrown"
        /\ HasEntry(calls[s], "createFile", TRUE)
        /\ HasEntry(calls[s], "createDocument", FALSE)
        /\ HasEntry(calls[s], "deleteFile", TRUE)
        /\ calls[s].bucketFile[1] \notin blobs

\* C3: every record in the database names a blob the object store holds.
C3_RecordsNameExistingBlobs ==
    \A d \in DOMAIN docs : docs[d].bucketFileId \in blobs

\* C4: the step of deleteFile in which deleteDocument throws changes
\* neither store and ends the call: it has thrown, without a deleteFile
\* call, a revalidation or a value.
C4_NoBlobDeletionAfterFailedDelete ==
    [][\A s \in Slots :
          /\ calls[s].op = "deleteFile" /\ calls[s].pc = "deleteDocument"
          /\ HasEntry(calls'[s], "deleteDocument", FALSE)
          => /\ blobs' = blobs
             /\ docs' = docs
             /\ calls'[s].pc = "thrown"
             /\ calls'[s].error = "deleteDocument"
             /\ ~HasEntry(calls'[s], "deleteFile", TRUE)
             /\ ~HasEntry(calls'[s], "deleteFile", FALSE)
             /\ ~calls'[s].revalidated
             /\ calls'[s].result = <<>>]_vars

\* C4 witness: a deleteFile call has thrown on deleteDocument while the
\* record and the blob it named are both still there.
C4_Witness ==
    \E s \in Slots :
        /\ calls[s].op = "deleteFile" /\ calls[s].pc = "thrown"
        /\ HasEntry(calls[s], "deleteDocument", FALSE)
        /\ calls[s].args.fileId \in DOMAIN docs
        /\ calls[s].args.bucketFileId \in blobs

\* C5: when a deleteFile call whose deleteDocument succeeded has ended,
\* deleteFile was invoked on the bucketFileId given; the call returned
\* success if that deletion succeeded, and only then.
C5_DeleteRemovesBoth ==
    \A s \in Slots :
        LET call == calls[s] IN
        call.op = "deleteFile" /\ Finished(s)
                               /\ HasEntry(call, "deleteDocument", TRUE) =>
            /\ Len(call.log) = 2
            /\ call.log[2].api = "deleteFile"
            /\ call.log[2].arg = call.args.bucketFileId
            /\ call.log[2].ok <=> (call.pc = "returned"
                                   /\ call.result = <<[status |-> "success"]>>)

Visible(u) ==
    {docs[d] : d \in {x \in DOMAIN docs :
        docs[x].owner = u.id \/ u.email \in Range(docs[x].users)}}

NoFilter(args) ==
    args.types = <<>> /\ args.searchText = <<>> /\ args.limit = <<>>

\* C6: a getFiles call that returned for user u returned only records u
\* owns or whose users hold u's e-mail, and all of them when it was given
\* no types, no searchText and no limit.
C6_ListWithinVisibilityScope ==
    \A s \in Slots :
        calls[s].op = "getFiles" /\ calls[s].pc = "returned" =>
            LET u == calls[s].user[1]
                listed == Range(calls[s].result[1])
            IN  /\ listed \subseteq Visible(u)
                /\ NoFilter(calls[s].args) => listed = Visible(u)

\* C6 witness: an unfiltered getFiles returned to u2 a record u1 owns and
\* shares with u2, while u1's e-mail is on no record.
C6_Witness ==
    \E s \in Slots :
        /\ calls[s].op = "getFiles" /\ calls[s].pc = "returned"
        /\ NoFilter(calls[s].args)
        /\ calls[s].user[1].id = "u2"
        /\ \E r \in Range(calls[s].result[1]) :
              r.owner = "u1" /\ r.users = <<"u2@mail">>

FrameFields == {"id", "createdAt", "type", "url", "extension", "size", "owner",
                "accountId", "bucketFileId"}

Updated(s, op) ==
    /\ calls[s].op = op /\ calls[s].pc = "updateDocument"
    /\ calls'[s].pc = "returned"

\* C7: a record is created with the values uploadFile was given and an
\* empty users list; afterwards no step changes its type, url, extension,
\* size, owner, accountId or bucketFileId; renameFile changes its name
\* alone, to name.extension, and updateFileUsers its users alone, to the
\* list given ($updatedAt, which the backend writes, aside).
C7_UpdateFrame ==
    [][/\ \A d \in DOMAIN docs \cap DOMAIN docs' :
             /\ \A f \in FrameFields : docs'[d][f] = docs[d][f]
             /\ docs'[d] # docs[d] =>
                   \E s \in Slots :
                      \/ /\ Updated(s, "renameFile")
                         /\ calls[s].args.fileId = d
                         /\ docs'[d].users = docs[d].users
                         /\ docs'[d].name = calls[s].args.name \o <<Str_dot>>
                                            \o calls[s].args.extension
                      \/ /\ Updated(s, "updateFileUsers")
                         /\ calls[s].args.fileId = d
                         /\ docs'[d].name = docs[d].name
                         /\ docs'[d].users = calls[s].args.emails
       /\ \A d \in DOMAIN docs' \ DOMAIN docs :
             \E s \in Slots :
                /\ calls[s].op = "uploadFile" /\ calls[s].pc = "createDocument"
                /\ docs'[d].owner = calls[s].args.ownerId
                /\ docs'[d].accountId = calls[s].args.accountId
                /\ docs'[d].size = calls[s].args.file.size
                /\ docs'[d].name = calls[s].args.file.name
                /\ docs'[d].bucketFileId = calls[s].bucketFile[1]
                /\ docs'[d].users = <<>>
       /\ \A s \in Slots :
             /\ Updated(s, "renameFile") =>
                   docs'[calls[s].args.fileId].name
                       = calls[s].args.name \o <<Str_dot>> \o calls[s].args.extension
             /\ Updated(s, "updateFileUsers") =>
                   docs'[calls[s].args.fileId].users = calls[s].args.emails
      ]_vars

\* C7 witness: a record u1 uploaded as a.pdf has been renamed r.pdf and
\* shared with u2; its owner, size and type are those of the upload.
C7_Witness ==
    \E d \in DOMAIN docs :
        /\ docs[d].name = <<"r", Str_dot>> \o Str_pdf
        /\ docs[d].users = <<"u2@mail">>
        /\ docs[d].owner = "u1" /\ docs[d].size = 1 /\ docs[d].type = "document"

NoUserResolved(call) ==
    \E i \in 1..Len(call.log) :
        /\ call.log[i].api = "getCurrentUser"
        /\ call.log[i].ok
        /\ call.log[i].arg = <<>>

\* C9: a getFiles or getTotalSpaceUsed call for which getCurrentUser gave
\* no user has thrown and issued no listDocuments; a getTotalSpaceUsed call
\* that got a user and has ended issued exactly one listDocuments, with the
\* one predicate owner = that user's id, and what it returned counts the
\* records that user owns and no other.
C9_AuthenticationGate ==
    \A s \in Slots :
        LET call == calls[s] IN
        /\ call.op \in {"getFiles", "getTotalSpaceUsed"} /\ NoUserResolved(call) =>
              /\ call.pc = "thrown"
              /\ NumLists(call.log) = 0
        /\ call.op = "getTotalSpaceUsed" /\ Finished(s) /\ call.user # <<>> =>
              /\ NumLists(call.log) = 1
              /\ call.log[2].api = "listDocuments"
              /\ call.log[2].arg = <<QueryEqual(Str_owner, <<call.user[1].id>>)>>
              /\ call.pc = "returned" =>
                    call.result[1].used
                        = SumSizes(docs, {d \in DOMAIN docs :
                                             docs[d].owner = call.user[1].id})

\* C9 witness: getTotalSpaceUsed returned a usage of 0 to u2 while u1's
\* record is shared with u2.
C9_Witness ==
    \E s \in Slots :
        /\ calls[s].op = "getTotalSpaceUsed" /\ calls[s].pc = "returned"
        /\ calls[s].user[1].id = "u2"
        /\ calls[s].result[1].used = 0
        /\ \E d \in DOMAIN docs : docs[d].owner = "u1" /\ docs[d].users = <<"u2@mail">>

====
